---------------------------- MODULE Spec2Model ----------------------------
(***************************************************************************)
(* A model of pytta/properties.py: the SingletonMeta metaclass and the    *)
(* Properties configuration holder (default table, __init__, __setattr__, *)
(* set_values, reset and the read accessors).                             *)
(*                                                                         *)
(* Python values are modelled by the strings of their literals ("44100",  *)
(* "[1]", "samples"), so that any value can be given to any property, as  *)
(* in the code, which validates nothing.                                  *)
(***************************************************************************)
EXTENDS Naturals, Sequences, FiniteSets, TLC

VARIABLES
    heap,        \* heap[i]: vars(self) of the i-th Properties object constructed
    _instance,   \* SingletonMeta._instance: 0 for None, else an index of heap
    _lock,       \* SingletonMeta._lock: 0 when free, else the thread holding it
    pc,          \* pc[t]: where thread t is inside SingletonMeta.__call__
    ret,         \* ret[t]: the object thread t's last Properties() returned (0: none yet)
    sd,          \* sd.default.device, the host audio subsystem's default device
    last,        \* the last operation on pytta.default: arguments and outcome
    nops,        \* number of operations performed on pytta.default
    call         \* call[t]: the call thread t is making on pytta.default, statement
                 \* by statement, when threads share the instance

vars == <<heap, _instance, _lock, pc, ret, sd, last, nops, call>>

----------------------------------------------------------------------------
(* Bounds *)

\* threads calling Properties()
NThreads == 2
\* operations performed on pytta.default in one behaviour
MaxOps == 2
\* name=value pairs in one set_values call
MaxPairs == 2

Threads == 1..NThreads

\* the two threads that share pytta.default
RaceThreads == {1, 2}

\* values handed to the operations: a scalar and a pair
InputVals == {"2", "[2, 3]"}

----------------------------------------------------------------------------
(* The default table and the class *)

\* sd.default.device at import time, copied into a list
__default_device == "[0, 1]"

default_ ==
    [samplingRate |-> "44100",
     lengthDomain |-> "samples",
     fftDegree    |-> "18",
     timeLength   |-> "10",
     integration  |-> "0.125",
     minFreq      |-> "20",
     maxFreq      |-> "20000",
     device       |-> __default_device,
     inChannel    |-> "[1]",
     outChannel   |-> "[1]",
     stopMargin   |-> "0.7",
     startMargin  |-> "0.3",
     comment      |-> "No comments."]

\* '_'+name
Priv(name) == "_" \o name

\* the class-level placeholders _samplingRate = [] ... _comment = []
Placeholders == {Priv(n) : n \in DOMAIN default_}

\* the value of every class-level placeholder
Placeholder == "[]"

\* the names declared with @property
PropertyNames == DOMAIN default_ \cup {"freqLims", "margins"}

\* the methods of Properties
MethodNames == {"__init__", "__setattr__", "view", "set_values", "reset"}

\* attributes every object inherits from object and from the class statement
ObjectNames == {"__class__", "__dict__", "__doc__", "__module__", "__dir__",
                "__eq__", "__repr__", "__weakref__"}

\* dir(self): the attributes of the class and the keys of vars(self)
Dir(d) == Placeholders \cup PropertyNames \cup MethodNames \cup ObjectNames
              \cup DOMAIN d

\* an empty vars(self)
EmptyDict == [k \in {} |-> ""]

\* d[key] = value
SetItem(d, key, value) ==
    [k \in DOMAIN d \cup {key} |-> IF k = key THEN value ELSE d[k]]

\* Properties.__init__: for name, value in default_.items(): vars(self)['_'+name] = value
__init__(d) ==
    [k \in DOMAIN d \cup Placeholders |->
        IF k \in Placeholders
        THEN default_[CHOOSE n \in DOMAIN default_ : Priv(n) = k]
        ELSE d[k]]

\* the instance attribute self._name, falling back on the class-level placeholder
GetPriv(d, name) ==
    IF Priv(name) \in DOMAIN d THEN d[Priv(name)] ELSE Placeholder

\* accessors in which a composite view returns an attribute stored under its
\* own private name when there is one
Accessor_Stored(d, name) ==
    CASE name \in {"freqLims", "margins"} /\ Priv(name) \in DOMAIN d -> d[Priv(name)]
      [] name = "freqLims" /\ Priv(name) \notin DOMAIN d ->
            "{'min': " \o GetPriv(d, "minFreq") \o ", 'max': "
                \o GetPriv(d, "maxFreq") \o "}"
      [] name = "margins" /\ Priv(name) \notin DOMAIN d ->
            "{'start': " \o GetPriv(d, "startMargin") \o ", 'stop': "
                \o GetPriv(d, "stopMargin") \o "}"
      [] OTHER -> GetPriv(d, name)

\* the read accessors; the composite ones build a dict from two stored values
Accessor(d, name) ==
    CASE name = "freqLims" ->
            "{'min': " \o GetPriv(d, "minFreq") \o ", 'max': "
                \o GetPriv(d, "maxFreq") \o "}"
      [] name = "margins" ->
            "{'start': " \o GetPriv(d, "startMargin") \o ", 'stop': "
                \o GetPriv(d, "stopMargin") \o "}"
      [] OTHER -> GetPriv(d, name)

----------------------------------------------------------------------------
(* The host audio subsystem *)

\* the values sounddevice takes as one index for both directions
ScalarVals == {"2"}

\* what sd.default.device reads after `sd.default.device = value`: the host
\* either takes the value, a single index standing for the pair of it, or
\* refuses it and keeps the device it had
SdAssign(cur, value, accepted) ==
    IF ~accepted THEN cur
    ELSE IF value \in ScalarVals THEN "[" \o value \o ", " \o value \o "]"
    ELSE value

----------------------------------------------------------------------------
(* The operations, as functions of the state of one call                   *)
(*   st.d       vars(self)                                                 *)
(*   st.sd      sd.default.device                                          *)
(*   st.exc     the exception propagating to the caller, "None" if none    *)
(*   st.printed number of diagnostics printed                              *)
(*   st.pushed  the values assigned to sd.default.device, in order         *)

Call(d, dev) == [d |-> d, sd |-> dev, exc |-> "None", printed |-> 0, pushed |-> <<>>]

\* self.__call__() in the except clause: the instance has no __call__
\* (a metaclass's __call__ is not an attribute of the instances), so the
\* lookup raises AttributeError inside the handler
SelfCall(st) ==
    IF "__call__" \in Dir(st.d)
    THEN [st EXCEPT !.exc = "TypeError"]
    ELSE [st EXCEPT !.exc = "AttributeError"]

\* set_values comparing with == where the code has !=
SetValuesPair_Inverted(st, name, value, accepted) ==
    IF Priv(name) \notin DOMAIN st.d
    THEN SelfCall([st EXCEPT !.printed = @ + 1])
    ELSE IF st.d[Priv(name)] = value
    THEN IF name \in {"device", "devices"}
         THEN LET dev == SdAssign(st.sd, value, accepted)
              IN  [st EXCEPT !.sd = dev,
                             !.pushed = Append(@, value),
                             !.d = SetItem(@, Priv(name), dev)]
         ELSE [st EXCEPT !.d = SetItem(@, Priv(name), value)]
    ELSE st

\* set_values without the comparison with the stored value
SetValuesPair_NoCompare(st, name, value, accepted) ==
    IF Priv(name) \notin DOMAIN st.d
    THEN SelfCall([st EXCEPT !.printed = @ + 1])
    ELSE IF name \in {"device", "devices"}
         THEN LET dev == SdAssign(st.sd, value, accepted)
              IN  [st EXCEPT !.sd = dev,
                             !.pushed = Append(@, value),
                             !.d = SetItem(@, Priv(name), dev)]
         ELSE [st EXCEPT !.d = SetItem(@, Priv(name), value)]

\* set_values storing the value given instead of re-reading sd.default.device
SetValuesPair_StoreValue(st, name, value, accepted) ==
    IF Priv(name) \notin DOMAIN st.d
    THEN SelfCall([st EXCEPT !.printed = @ + 1])
    ELSE IF st.d[Priv(name)] # value
    THEN IF name \in {"device", "devices"}
         THEN LET dev == SdAssign(st.sd, value, accepted)
              IN  [st EXCEPT !.sd = dev,
                             !.pushed = Append(@, value),
                             !.d = SetItem(@, Priv(name), value)]
         ELSE [st EXCEPT !.d = SetItem(@, Priv(name), value)]
    ELSE st

\* set_values creating the slot of a name that has none
SetValuesPair_CreateSlot(st, name, value, accepted) ==
    IF Priv(name) \notin DOMAIN st.d \/ st.d[Priv(name)] # value
    THEN IF name \in {"device", "devices"}
         THEN LET dev == SdAssign(st.sd, value, accepted)
              IN  [st EXCEPT !.sd = dev,
                             !.pushed = Append(@, value),
                             !.d = SetItem(@, Priv(name), dev)]
         ELSE [st EXCEPT !.d = SetItem(@, Priv(name), value)]
    ELSE st

\* one iteration of the loop of set_values
SetValuesPair(st, name, value, accepted) ==
    IF Priv(name) \notin DOMAIN st.d
    THEN SelfCall([st EXCEPT !.printed = @ + 1])
    ELSE IF st.d[Priv(name)] # value
    THEN IF name \in {"device", "devices"}
         THEN LET dev == SdAssign(st.sd, value, accepted)
              IN  [st EXCEPT !.sd = dev,
                             !.pushed = Append(@, value),
                             !.d = SetItem(@, Priv(name), dev)]
         ELSE [st EXCEPT !.d = SetItem(@, Priv(name), value)]
    ELSE st

\* Properties.set_values(**namevalues); an exception ends the loop
RECURSIVE set_values(_, _, _)
set_values(st, namevalues, accepted) ==
    IF namevalues = <<>> \/ st.exc # "None"
    THEN st
    ELSE set_values(SetValuesPair(st, Head(namevalues).name,
                                  Head(namevalues).value, accepted),
                    Tail(namevalues), accepted)

\* __setattr__ without the `name != 'device'` test
__setattr___Direct(st, name, value, accepted) ==
    IF name \in Dir(st.d)
    THEN [st EXCEPT !.d = SetItem(@, Priv(name), value)]
    ELSE IF name \in {"device", "devices"}
    THEN set_values(st, <<[name |-> "device", value |-> value]>>, accepted)
    ELSE [st EXCEPT !.exc = "AttributeError"]

\* Properties.__setattr__(name, value)
__setattr__(st, name, value, accepted) ==
    IF name \in Dir(st.d) /\ name # "device"
    THEN [st EXCEPT !.d = SetItem(@, Priv(name), value)]
    ELSE IF name \in {"device", "devices"}
    THEN set_values(st, <<[name |-> "device", value |-> value]>>, accepted)
    ELSE [st EXCEPT !.exc = "AttributeError"]

\* reset without vars(self).clear()
reset_NoClear(st) == [st EXCEPT !.d = __init__(st.d)]

\* Properties.reset()
reset(st) == [st EXCEPT !.d = __init__(EmptyDict)]

----------------------------------------------------------------------------
(* Inputs *)

\* names given to the operations: every property, the alias, methods, a
\* private name, a special name and a misspelling
Names == PropertyNames \cup
         {"devices", "view", "reset", "set_values", "_samplingRate",
          "__init__", "samplingrate"}

\* names used in calls of set_values with several pairs
PairNames == {"minFreq", "device", "samplingrate"}

Pairs(ns) == [name : ns, value : InputVals]

\* keyword arguments: sequences of pairs with distinct names
KwArgs(n, ns) ==
    {s \in [1..n -> Pairs(ns)] : \A i, j \in 1..n : i # j => s[i].name # s[j].name}

NameValues ==
    KwArgs(1, Names) \cup UNION {KwArgs(n, PairNames) : n \in 2..MaxPairs}

----------------------------------------------------------------------------
(* pytta.default: the operations on the instance made at import time *)

default == heap[1]

\* vars(self) of a freshly constructed object
Fresh == __init__(EmptyDict)

\* what vars(self) held for a name before a call
Missing == "<missing>"
Old(d, name) == IF Priv(name) \in DOMAIN d THEN d[Priv(name)] ELSE Missing

\* the effect of a call that ended in state st; `last` records the call: its
\* arguments, what was stored for their names before it (old), whether
\* vars(self) then differed from a freshly initialised one (dirty), and its
\* outcome
Done(op, args, st) ==
    /\ heap' = [heap EXCEPT ![1] = st.d]
    /\ sd' = st.sd
    /\ last' = [op |-> op, args |-> args,
                old |-> [i \in DOMAIN args |-> Old(default, args[i].name)],
                dirty |-> (default # Fresh),
                exc |-> st.exc, printed |-> st.printed, pushed |-> st.pushed]
    /\ nops' = nops + 1
    /\ UNCHANGED <<_instance, _lock, pc, ret, call>>

SetValues(namevalues, accepted) ==
    /\ nops < MaxOps
    /\ Done("set_values", namevalues, set_values(Call(default, sd), namevalues, accepted))

SetAttr(name, value, accepted) ==
    /\ nops < MaxOps
    /\ Done("__setattr__", <<[name |-> name, value |-> value]>>,
            __setattr__(Call(default, sd), name, value, accepted))

Reset ==
    /\ nops < MaxOps
    /\ Done("reset", <<>>, reset(Call(default, sd)))

\* a thread that is making no call on the instance
Idle == [op |-> "idle", stage |-> "done", args |-> <<>>, i |-> 0,
         printed |-> 0, exc |-> "None"]

NoOp == [op |-> "import", args |-> <<>>, old |-> <<>>, dirty |-> FALSE, exc |-> "None", printed |-> 0, pushed |-> <<>>]

\* after `default = Properties()` at import
Init ==
    /\ heap = <<__init__(EmptyDict)>>
    /\ _instance = 1
    /\ _lock = 0
    /\ pc = [t \in Threads |-> "idle"]
    /\ ret = [t \in Threads |-> 0]
    /\ sd = __default_device
    /\ last = NoOp
    /\ nops = 0
    /\ call = [t \in RaceThreads |-> Idle]

\* the host's answers that matter to a call: it is asked only about a device
HostAnswers(ns) == IF ns \cap {"device", "devices"} = {} THEN {TRUE} ELSE BOOLEAN

DoSetValues ==
    \E nv \in NameValues :
        \E a \in HostAnswers({nv[i].name : i \in DOMAIN nv}) : SetValues(nv, a)

DoSetAttr ==
    \E n \in Names, v \in InputVals :
        \E a \in HostAnswers({n}) : SetAttr(n, v, a)

Next == DoSetValues \/ DoSetAttr \/ Reset

Spec == Init /\ [][Next]_vars

----------------------------------------------------------------------------
(* SingletonMeta.__call__, one step per statement, run by several threads  *)
(* from a state in which no instance exists yet.  Between its calls of     *)
(* Properties() a thread writes to, or resets, the object it was given.    *)

\* Properties(...) is called
Enter(t) ==
    /\ pc[t] = "idle"
    /\ pc' = [pc EXCEPT ![t] = "check"]
    /\ UNCHANGED <<heap, _instance, _lock, ret, sd, last, nops, call>>

\* if not cls._instance:
Check(t) ==
    /\ pc[t] = "check"
    /\ pc' = [pc EXCEPT ![t] = IF _instance = 0 THEN "acquire" ELSE "return"]
    /\ UNCHANGED <<heap, _instance, _lock, ret, sd, last, nops, call>>

\* with cls._lock: (entry)
Acquire(t) ==
    /\ pc[t] = "acquire"
    /\ _lock = 0
    /\ _lock' = t
    /\ pc' = [pc EXCEPT ![t] = "create"]
    /\ UNCHANGED <<heap, _instance, ret, sd, last, nops, call>>

\* cls._instance = super().__call__(*args, **kwargs)
Create(t) ==
    /\ pc[t] = "create"
    /\ heap' = Append(heap, __init__(EmptyDict))
    /\ _instance' = Len(heap) + 1
    /\ pc' = [pc EXCEPT ![t] = "release"]
    /\ UNCHANGED <<_lock, ret, sd, last, nops, call>>

\* leaving the with block without releasing the lock
Release_KeepLock(t) ==
    /\ pc[t] = "release"
    /\ pc' = [pc EXCEPT ![t] = "return"]
    /\ UNCHANGED <<heap, _instance, _lock, ret, sd, last, nops, call>>

\* with cls._lock: (exit)
Release(t) ==
    /\ pc[t] = "release"
    /\ _lock' = 0
    /\ pc' = [pc EXCEPT ![t] = "return"]
    /\ UNCHANGED <<heap, _instance, ret, sd, last, nops, call>>

\* return cls._instance
Return(t) ==
    /\ pc[t] = "return"
    /\ ret' = [ret EXCEPT ![t] = _instance]
    /\ pc' = [pc EXCEPT ![t] = "idle"]
    /\ UNCHANGED <<heap, _instance, _lock, sd, last, nops, call>>

\* names a thread writes to between its calls
ThreadNames == {"comment"}

\* obj.name = value on the object the thread was given
ThreadSetAttr(t, name, value) ==
    /\ pc[t] = "idle"
    /\ ret[t] # 0
    /\ LET st == __setattr__(Call(heap[ret[t]], sd), name, value, TRUE)
       IN  /\ heap' = [heap EXCEPT ![ret[t]] = st.d]
           /\ sd' = st.sd
    /\ UNCHANGED <<_instance, _lock, pc, ret, last, nops, call>>

\* obj.reset() on the object the thread was given
ThreadReset(t) ==
    /\ pc[t] = "idle"
    /\ ret[t] # 0
    /\ heap' = [heap EXCEPT ![ret[t]] = reset(Call(heap[ret[t]], sd)).d]
    /\ UNCHANGED <<_instance, _lock, pc, ret, sd, last, nops, call>>

\* at program start: no instance yet, the lock free
InitSingleton ==
    /\ heap = <<>>
    /\ _instance = 0
    /\ _lock = 0
    /\ pc = [t \in Threads |-> "idle"]
    /\ ret = [t \in Threads |-> 0]
    /\ sd = __default_device
    /\ last = NoOp
    /\ nops = 0
    /\ call = [t \in RaceThreads |-> Idle]

DoThreadSetAttr(t) == \E n \in ThreadNames, v \in InputVals : ThreadSetAttr(t, n, v)

NextSingleton ==
    \E t \in Threads :
        \/ Enter(t)
        \/ Check(t)
        \/ Acquire(t)
        \/ Create(t)
        \/ Release(t)
        \/ Return(t)
        \/ DoThreadSetAttr(t)
        \/ ThreadReset(t)

SpecSingleton == InitSingleton /\ [][NextSingleton]_vars

\* the statements of SingletonMeta.__call__ after its entry
InCall(t) == Check(t) \/ Acquire(t) \/ Create(t) \/ Release(t) \/ Return(t)

\* a thread inside Properties() keeps running, and a thread waiting for the
\* lock gets it once it stays free
SpecSingletonFair == SpecSingleton /\ \A t \in Threads : WF_vars(InCall(t))

----------------------------------------------------------------------------
(* Two threads sharing pytta.default without synchronization: set_values,  *)
(* reset and the accessors, one step per statement of the bytecode that    *)
(* reads or writes vars(self).                                             *)

\* the value each thread passes to set_values
RaceVal == <<"2", "[2, 3]">>

\* the names both threads set, in either order of the keyword arguments
RaceArgs(t) ==
    {<<[name |-> "minFreq", value |-> RaceVal[t]], [name |-> "maxFreq", value |-> RaceVal[t]]>>,
     <<[name |-> "maxFreq", value |-> RaceVal[t]], [name |-> "minFreq", value |-> RaceVal[t]]>>}

\* the accessors the threads read
ReadNames == {"minFreq", "comment"}

\* default_.items(), in the order of the table
DefaultItems ==
    <<"samplingRate", "lengthDomain", "fftDegree", "timeLength", "integration",
      "minFreq", "maxFreq", "device", "inChannel", "outChannel", "stopMargin",
      "startMargin", "comment">>

Free(t) == call[t].stage = "done"

Shared(t) == /\ UNCHANGED <<_instance, _lock, pc, ret, sd, last, nops>>
             /\ \A u \in RaceThreads \ {t} : call'[u] = call[u]

\* the loop of set_values moves to its next pair, or ends
NextPair(c) ==
    IF c.i < Len(c.args) THEN [c EXCEPT !.i = @ + 1, !.stage = "compare"]
    ELSE [c EXCEPT !.stage = "done"]

\* set_values(**namevalues) is entered
SvBegin(t, namevalues) ==
    /\ Free(t)
    /\ call' = [call EXCEPT ![t] = [op |-> "set_values", stage |-> "compare",
                                    args |-> namevalues, i |-> 1,
                                    printed |-> 0, exc |-> "None"]]
    /\ UNCHANGED heap
    /\ Shared(t)

\* if vars(self)['_'+name] != value:   (and the except clause on KeyError)
SvCompare(t) ==
    /\ call[t].op = "set_values"
    /\ call[t].stage = "compare"
    /\ LET c == call[t]
           p == c.args[c.i]
       IN  call' = [call EXCEPT ![t] =
                IF Priv(p.name) \notin DOMAIN default
                THEN [c EXCEPT !.printed = @ + 1,
                               !.exc = SelfCall(Call(default, sd)).exc,
                               !.stage = "done"]
                ELSE IF default[Priv(p.name)] # p.value
                THEN [c EXCEPT !.stage = "store"]
                ELSE NextPair(c)]
    /\ UNCHANGED heap
    /\ Shared(t)

\* the assignment of line 216 lost: the loop goes on without storing
SvStore_Lost(t) ==
    /\ call[t].op = "set_values"
    /\ call[t].stage = "store"
    /\ call' = [call EXCEPT ![t] = NextPair(call[t])]
    /\ UNCHANGED heap
    /\ Shared(t)

\* vars(self)['_'+name] = value, for a name that is not device
SvStore(t) ==
    /\ call[t].op = "set_values"
    /\ call[t].stage = "store"
    /\ LET c == call[t]
           p == c.args[c.i]
       IN  /\ p.name \notin {"device", "devices"}
           /\ heap' = [heap EXCEPT ![1] = SetItem(@, Priv(p.name), p.value)]
           /\ call' = [call EXCEPT ![t] = NextPair(c)]
    /\ Shared(t)

\* reset() is entered
RsBegin(t) ==
    /\ Free(t)
    /\ call' = [call EXCEPT ![t] = [op |-> "reset", stage |-> "clear", args |-> <<>>,
                                    i |-> 0, printed |-> 0, exc |-> "None"]]
    /\ UNCHANGED heap
    /\ Shared(t)

\* vars(self).clear()
RsClear(t) ==
    /\ call[t].op = "reset"
    /\ call[t].stage = "clear"
    /\ heap' = [heap EXCEPT ![1] = EmptyDict]
    /\ call' = [call EXCEPT ![t].stage = "init", ![t].i = 1]
    /\ Shared(t)

\* __init__ stopping one item short of the table
RsInit_OneShort(t) ==
    /\ call[t].op = "reset"
    /\ call[t].stage = "init"
    /\ LET n == DefaultItems[call[t].i]
       IN  heap' = [heap EXCEPT ![1] = SetItem(@, Priv(n), default_[n])]
    /\ call' = [call EXCEPT ![t] =
                   IF call[t].i + 1 < Len(DefaultItems) THEN [@ EXCEPT !.i = @ + 1]
                   ELSE [@ EXCEPT !.stage = "done"]]
    /\ Shared(t)

\* self.__init__(): one iteration of vars(self)['_'+name] = value
RsInit(t) ==
    /\ call[t].op = "reset"
    /\ call[t].stage = "init"
    /\ LET n == DefaultItems[call[t].i]
       IN  heap' = [heap EXCEPT ![1] = SetItem(@, Priv(n), default_[n])]
    /\ call' = [call EXCEPT ![t] =
                   IF call[t].i < Len(DefaultItems) THEN [@ EXCEPT !.i = @ + 1]
                   ELSE [@ EXCEPT !.stage = "done"]]
    /\ Shared(t)

\* default.name is read; args holds the name and the value returned
RdRead(t, name) ==
    /\ Free(t)
    /\ call' = [call EXCEPT ![t] = [op |-> "read", stage |-> "done",
                                    args |-> <<[name |-> name,
                                                value |-> Accessor(default, name)]>>,
                                    i |-> 1, printed |-> 0, exc |-> "None"]]
    /\ UNCHANGED heap
    /\ Shared(t)

DoSvBegin(t) == \E nv \in RaceArgs(t) : SvBegin(t, nv)
DoRdRead(t) == \E n \in ReadNames : RdRead(t, n)

NextRace ==
    \E t \in RaceThreads :
        \/ DoSvBegin(t)
        \/ SvCompare(t)
        \/ SvStore(t)
        \/ RsBegin(t)
        \/ RsClear(t)
        \/ RsInit(t)
        \/ DoRdRead(t)

\* the instance exists (made at import) when the threads start
SpecRace == Init /\ [][NextRace]_vars

----------------------------------------------------------------------------
(* Properties checked *)

Arg(n, v) == [name |-> n, value |-> v]

\* C1: calls of Properties() made by different threads return the same
\* instance: any two threads that have been given an instance hold the same one.
C1_SameInstance ==
    \A t1, t2 \in Threads : (ret[t1] # 0 /\ ret[t2] # 0) => ret[t1] = ret[t2]

\* C2: the Properties instance is constructed exactly once: never more than
\* one object exists, whatever the threads call, reset() included.
C2_ConstructedOnce == Len(heap) <= 1

\* the names with a private slot in a freshly initialised instance
ValidNames == DOMAIN default_

\* the value of a valid pair was applied: stored as given, or, for device, as
\* the host reports it
Applied(p) ==
    IF p.name = "device"
    THEN p.value \in last.pushed /\ Accessor(default, "device") = sd
    ELSE Accessor(default, p.name) = p.value

\* C3: a set_values call with one valid and one misspelled name, in either
\* order, applies the valid value, prints the diagnostic once for the
\* misspelled name and returns without an exception.
C3_MixedCallReturns ==
    (/\ last.op = "set_values"
     /\ Len(last.args) = 2
     /\ \E i, j \in 1..2 :
           /\ last.args[i].name \in ValidNames
           /\ last.args[j].name = "samplingrate")
    => /\ last.exc = "None"
       /\ last.printed = 1
       /\ \A i \in 1..2 : last.args[i].name \in ValidNames => Applied(last.args[i])

\* C4 as claimed: for every name with a read accessor other than device,
\* set_values(name=value) with value different from what the accessor
\* returns makes the accessor return value.
C4_EveryAccessor ==
    [][\A n \in PropertyNames \ {"device"}, v \in InputVals :
          (Accessor(default, n) # v /\ SetValues(<<Arg(n, v)>>, TRUE))
          => Accessor(default', n) = v]_vars

\* C4 as amended: for every name of the default table other than device,
\* after set_values(name=value) with value different from the one stored
\* before the call, the accessor returns value and nothing was raised.
C4_EveryStoredName ==
    (/\ last.op = "set_values"
     /\ Len(last.args) = 1
     /\ last.args[1].name \in ValidNames \ {"device"}
     /\ last.old[1] # last.args[1].value)
    => /\ Accessor(default, last.args[1].name) = last.args[1].value
       /\ last.exc = "None"

C4_Witness ==
    /\ last.op = "set_values"
    /\ last.args = <<Arg("maxFreq", "2")>>
    /\ last.old = <<"20000">>
    /\ Accessor(default, "maxFreq") = "2"
    /\ Accessor(default, "freqLims") = "{'min': 20, 'max': 2}"

\* C5: after reset() every stored property has its default-table value and
\* the stored attributes are exactly those of the default table.
C5_ResetRestoresDefaults ==
    last.op = "reset" =>
        /\ DOMAIN default = {Priv(n) : n \in DOMAIN default_}
        /\ \A n \in DOMAIN default_ : default[Priv(n)] = default_[n]

\* a reset of an instance whose vars(self) differed from a fresh one
C5_Witness ==
    /\ last.op = "reset"
    /\ last.dirty
    /\ DOMAIN default = Placeholders

\* the names the claim C6 gives as examples, and a misspelling
C6_Names == {"view", "reset", "set_values", "_samplingRate", "samplingrate"}

\* C6: a direct write to a name that has no read accessor raises the
\* unrecognized-property error and leaves the stored state unchanged.
C6_UnrecognizedWriteRaises ==
    [][\A n \in C6_Names, v \in InputVals :
          SetAttr(n, v, TRUE) => (last'.exc = "AttributeError" /\ heap' = heap)]_vars

\* C7: set_values(name=value) with value equal to the stored value of name
\* changes no stored attribute, raises nothing, and assigns nothing to the
\* host's default device (for device as for any other name).
C7_EqualValueIsNoOp ==
    [][(/\ last'.op = "set_values"
        /\ Len(last'.args) = 1
        /\ last'.old[1] = last'.args[1].value
        /\ nops' = nops + 1)
       => /\ heap' = heap
          /\ sd' = sd
          /\ last'.pushed = <<>>
          /\ last'.exc = "None"]_vars

C7_Witness ==
    /\ last.op = "set_values"
    /\ last.args = <<Arg("device", "[2, 3]")>>
    /\ last.old = <<"[2, 3]">>
    /\ last.pushed = <<>>
    /\ Accessor(default, "device") = "[2, 3]"

\* C8: set_values(device=v) with v different from the stored device assigns
\* v to the host's default device, once, and stores the device the host
\* reports afterwards; the accessor returns that report.
C8_DeviceIsReRead ==
    [][(/\ last'.op = "set_values"
        /\ Len(last'.args) = 1
        /\ last'.args[1].name = "device"
        /\ last'.old[1] # last'.args[1].value
        /\ nops' = nops + 1)
       => /\ last'.pushed = <<last'.args[1].value>>
          /\ sd' \in {SdAssign(sd, last'.args[1].value, a) : a \in BOOLEAN}
          /\ Accessor(default', "device") = sd'
          /\ last'.exc = "None"]_vars

\* the host reported a device other than the one assigned, and it was stored
C8_Witness ==
    /\ last.op = "set_values"
    /\ last.args = <<Arg("device", "2")>>
    /\ last.pushed = <<"2">>
    /\ sd # "2"
    /\ Accessor(default, "device") = sd

\* C9: set_values(devices=v) with v different from the stored device is
\* handled like device: v is assigned to the host's default device, the
\* stored device becomes the host's report and nothing is raised.
C9_DevicesAlias ==
    [][\A v \in InputVals, a \in BOOLEAN :
          (Old(default, "device") # v /\ SetValues(<<Arg("devices", v)>>, a))
          => /\ last'.pushed = <<v>>
             /\ Accessor(default', "device") = sd'
             /\ last'.printed = 0
             /\ last'.exc = "None"]_vars

\* C10: a direct write default.device = v has the effect of
\* set_values(device=v) and no other: the stored device is left as it was
\* with nothing assigned to the host, or v was assigned to the host and the
\* stored device is the host's report.
C10_DeviceWriteDelegates ==
    [][(/\ last'.op = "__setattr__"
        /\ last'.args[1].name = "device"
        /\ nops' = nops + 1)
       => LET v == last'.args[1].value
          IN  /\ \E a \in BOOLEAN :
                    LET st == set_values(Call(default, sd), <<Arg("device", v)>>, a)
                    IN  /\ default' = st.d
                        /\ sd' = st.sd
                        /\ last'.pushed = st.pushed
                        /\ last'.exc = st.exc
              /\ \/ default'["_device"] = default["_device"] /\ last'.pushed = <<>>
                 \/ default'["_device"] = sd' /\ last'.pushed = <<v>>]_vars

\* a direct write of "2" after which the device stored is the host's "[2, 2]"
C10_Witness ==
    /\ last.op = "__setattr__"
    /\ last.args = <<Arg("device", "2")>>
    /\ last.pushed = <<"2">>
    /\ Accessor(default, "device") = "[2, 2]"

\* the dict a composite accessor is to return for two values
View2(k1, v1, k2, v2) == "{'" \o k1 \o "': " \o v1 \o ", '" \o k2 \o "': " \o v2 \o "}"

\* C11: after any sequence of set_values, direct writes and reset, freqLims
\* is {min: minFreq, max: maxFreq} and margins is {start: startMargin,
\* stop: stopMargin} of the component accessors, which return the stored
\* values; a successful set_values(maxFreq=v) shows as max in freqLims.
C11_CompositeViews ==
    /\ Accessor(default, "freqLims") =
           View2("min", Accessor(default, "minFreq"), "max", Accessor(default, "maxFreq"))
    /\ Accessor(default, "margins") =
           View2("start", Accessor(default, "startMargin"),
                 "stop", Accessor(default, "stopMargin"))
    /\ \A n \in {"minFreq", "maxFreq", "startMargin", "stopMargin"} :
           Accessor(default, n) = default[Priv(n)]
    /\ (last.op = "set_values" /\ last.exc = "None" /\ Len(last.args) = 1
            /\ last.args[1].name = "maxFreq")
       => Accessor(default, "freqLims") =
              View2("min", default["_minFreq"], "max", last.args[1].value)

\* a direct write to freqLims was accepted and stored, and freqLims still
\* shows the frequencies
C11_Witness ==
    /\ last.op = "__setattr__"
    /\ last.args = <<Arg("freqLims", "2")>>
    /\ last.exc = "None"
    /\ default["_freqLims"] = "2"
    /\ default["_minFreq"] = "[2, 3]"
    /\ Accessor(default, "freqLims") = "{'min': [2, 3], 'max': 20000}"

\* C12: for every recognized property name, a direct write and a
\* set_values call with the same name and value, made from the same state,
\* leave the same stored state and host device and both succeed or both fail.
C12_WriteEqualsSetValues ==
    \A n \in PropertyNames, v \in InputVals, a \in BOOLEAN :
        LET w == __setattr__(Call(default, sd), n, v, a)
            b == set_values(Call(default, sd), <<Arg(n, v)>>, a)
        IN  /\ w.d = b.d
            /\ w.sd = b.sd
            /\ (w.exc = "None") <=> (b.exc = "None")

\* C13: a set_values pair whose name has no private slot leaves vars(self)
\* as it was, in every reachable state: no attribute is added, none changed.
C13_NoSlotNoChange ==
    /\ \A n \in Names, v \in InputVals :
          Priv(n) \notin DOMAIN default
          => SetValuesPair(Call(default, sd), n, v, TRUE).d = default
    /\ (last.op = "set_values" /\ Len(last.args) = 1 /\ last.old[1] = Missing)
       => Priv(last.args[1].name) \notin DOMAIN default

\* set_values(view=...) was called on an instance that has more than the
\* default slots, and found no slot
C13_Witness ==
    /\ last.op = "set_values"
    /\ Len(last.args) = 1
    /\ last.args[1].name = "view"
    /\ last.old = <<Missing>>
    /\ last.printed = 1
    /\ last.dirty
    /\ "_view" \notin DOMAIN default

\* C16: the stored device equals the host's current default device after any
\* sequence of set_values, direct writes and reset().
C16_DeviceAgreesWithHost == Accessor(default, "device") = sd

\* C17: the attributes stored on the instance are exactly the 13 private
\* slots of the default table, in every reachable state.
C17_OnlyDefaultSlots == DOMAIN default = {Priv(n) : n \in DOMAIN default_}

\* C15: under fair scheduling every thread that calls Properties() returns,
\* and the lock is held only by a thread that is creating the instance or
\* about to leave the with block.
C15_EveryCallReturns ==
    /\ \A t \in Threads : (pc[t] = "check") ~> (pc[t] = "idle" /\ ret[t] # 0)
    /\ [](\A t \in Threads : _lock = t => pc[t] \in {"create", "release"})

\* a caller waits for the lock while another thread holds it
C15_Witness ==
    \E t, u \in Threads : t # u /\ pc[t] = "acquire" /\ _lock = u

\* every thread's last call on the instance is a set_values that has returned
AllSetValuesDone ==
    \A t \in RaceThreads : call[t].op = "set_values" /\ call[t].stage = "done"

\* the values the threads' calls gave for a name
Written(n) ==
    {call[t].args[i].value : t \in RaceThreads, i \in 1..2} \cap
    {v \in InputVals : \E t \in RaceThreads, i \in 1..2 :
          call[t].args[i] = [name |-> n, value |-> v]}

\* C14: when two threads have run set_values on the same two names without
\* synchronization, each property holds a value given by one of the two
\* calls (the mixed outcome, one property from each call, is C14_Witness).
C14_LastWriteWins ==
    AllSetValuesDone
    => \A n \in {"minFreq", "maxFreq"} :
           Priv(n) \in DOMAIN default /\ default[Priv(n)] \in Written(n)

\* both calls returned normally and each property holds the value of a
\* different call
C14_Witness ==
    /\ AllSetValuesDone
    /\ \A t \in RaceThreads : call[t].exc = "None" /\ call[t].printed = 0
    /\ default["_minFreq"] = RaceVal[1]
    /\ default["_maxFreq"] = RaceVal[2]

\* C18 as claimed: a read racing with reset() never returns the class-level
\* placeholder, and a set_values call for valid names never prints the
\* diagnostic of an unrecognized name.
C18_ResetLooksAtomic ==
    \A t \in RaceThreads :
        /\ call[t].op = "read" => call[t].args[1].value # Placeholder
        /\ call[t].op = "set_values" => call[t].printed = 0

\* thread u is inside reset(), after the clear and before the end of __init__
InReset(u) == call[u].op = "reset" /\ call[u].stage = "init"

\* C18 as amended: whenever no reset() is between its clear and the end of its
\* re-initialisation, all 13 slots are stored; a read returns the placeholder,
\* and a set_values call for a valid name prints the diagnostic, only while
\* another thread is inside that window.
C18_OnlyInsideReset ==
    /\ []((\A u \in RaceThreads : ~InReset(u)) => Placeholders \subseteq DOMAIN default)
    /\ [][\A t \in RaceThreads :
            /\ (/\ call'[t] # call[t]
                /\ call'[t].op = "read"
                /\ call'[t].args[1].value = Placeholder)
               => \E u \in RaceThreads \ {t} : InReset(u)
            /\ (call'[t].printed > call[t].printed)
               => \E u \in RaceThreads \ {t} : InReset(u)]_vars

\* a thread has read the placeholder while the other is inside reset()
C18_Witness ==
    \E t, u \in RaceThreads :
        /\ t # u
        /\ InReset(u)
        /\ call[t].op = "read"
        /\ call[t].args[1] = [name |-> "comment", value |-> Placeholder]

=============================================================================
